---- MODULE Spec2Model ----
(***************************************************************************)
(* A model of DepotManifestGen (src/main.py): dmg_save_manifest, the       *)
(* normalisation it applies to a manifest, the key store config.vdf, the   *)
(* retention of old manifests, and the main per-product loop.              *)
(*                                                                         *)
(* Strings are sequences of code points, so that str(), bytes.hex(), the   *)
(* file name format and its parsing, rstrip, upper and string ordering are *)
(* computed as Python computes them.                                       *)
(*                                                                         *)
(* Not modelled: the login phase (lines 136-210), the workshop and         *)
(* only-info modes (lines 219-230, 255-260), metadata.crc_clear (line 123, *)
(* a value no modelled operation reads), and files in the product          *)
(* directory whose name is not <depot>_<gid>.manifest or config.vdf.       *)
(***************************************************************************)
EXTENDS Integers, Sequences, FiniteSets, TLC

VARIABLES
    \* the product directory depots/<app_id> on disk
    app_dir,        \* whether the directory exists
    files,          \* manifest files present: file name -> content
    config,         \* the content of config.vdf
    \* one dmg_save_manifest call per process
    pc,             \* position of each process in dmg_save_manifest
    call,           \* arguments of the current (or last) call
    d,              \* the local d: the merged 'depots' mapping
    todo,           \* what app_path.iterdir() has still to yield
    delete_list,    \* the local delete_list
    ret,            \* how the last call ended
    entry,          \* history: files and config.vdf when the call began
    \* normalisation of two orderings of one manifest
    raw_a, raw_b, out_a, out_b,
    \* the main loop
    main_pc, licenses, app_id_list, owned, idx, pending, visited

vars == <<app_dir, files, config, pc, call, d, todo, delete_list, ret, entry,
          raw_a, raw_b, out_a, out_b,
          main_pc, licenses, app_id_list, owned, idx, pending, visited>>

diskVars == <<app_dir, files, config>>
procVars == <<pc, call, d, todo, delete_list, ret, entry>>
normVars == <<raw_a, raw_b, out_a, out_b>>
mainVars == <<main_pc, licenses, app_id_list, owned, idx, pending, visited>>
saveVars == <<diskVars, procVars>>

---------------------------------------------------------------------------
\* Bounds

\* generation ids are 1..NumGids
NumGids == 2
\* entries of a manifest in the normalisation check
MaxEntries == 2
\* length of app_id_list
MaxApps == 2

\* "10" sorts before "9" as a string
Depots == {9, 10}
Gids == 1..NumGids
\* one-byte depot keys 0xde, 0xad
Keys == {<<222>>, <<173>>}
Procs == {1, 2}

---------------------------------------------------------------------------
\* Strings

\* str(n) of a non-negative integer
RECURSIVE Str(_)
Str(n) == IF n < 10 THEN <<48 + n>> ELSE Str(n \div 10) \o <<48 + (n % 10)>>

HexDigit(n) == IF n < 10 THEN 48 + n ELSE 87 + n

\* bytes.hex()
RECURSIVE Hex(_)
Hex(bytes) ==
    IF bytes = <<>> THEN <<>>
    ELSE <<HexDigit(Head(bytes) \div 16), HexDigit(Head(bytes) % 16)>> \o Hex(Tail(bytes))

\* Python's < on str
RECURSIVE StrLess(_, _)
StrLess(a, b) ==
    IF b = <<>> THEN FALSE
    ELSE IF a = <<>> THEN TRUE
    ELSE IF Head(a) # Head(b) THEN Head(a) < Head(b)
    ELSE StrLess(Tail(a), Tail(b))

\* str.upper() on ASCII
Upper(s) == [k \in 1..Len(s) |-> IF s[k] >= 97 /\ s[k] <= 122 THEN s[k] - 32 ELSE s[k]]

\* str.rstrip('\x00 \n\t')
RECURSIVE RStrip(_)
RStrip(s) ==
    IF s # <<>> /\ s[Len(s)] \in {0, 32, 10, 9}
    THEN RStrip(SubSeq(s, 1, Len(s) - 1))
    ELSE s

\* str.split(sep)
RECURSIVE Split(_, _)
Split(s, sep) ==
    IF \A k \in 1..Len(s) : s[k] # sep THEN <<s>>
    ELSE LET k == CHOOSE j \in 1..Len(s) : s[j] = sep /\ \A h \in 1..(j - 1) : s[h] # sep
         IN  <<SubSeq(s, 1, k - 1)>> \o Split(SubSeq(s, k + 1, Len(s)), sep)

\* index of the last '.' of a file name, 0 if none (or only a leading one)
LastDot(name) ==
    LET dots == {k \in 2..Len(name) : name[k] = 46}
    IN  IF dots = {} THEN 0 ELSE CHOOSE k \in dots : \A j \in dots : j <= k

\* Path.suffix and Path.stem
Suffix(name) == IF LastDot(name) = 0 THEN <<>> ELSE SubSeq(name, LastDot(name), Len(name))
Stem(name) == IF LastDot(name) = 0 THEN name ELSE SubSeq(name, 1, LastDot(name) - 1)

\* '.manifest'
ManifestSuffix == <<46, 109, 97, 110, 105, 102, 101, 115, 116>>
\* 'config.vdf'
ConfigName == <<99, 111, 110, 102, 105, 103, 46, 118, 100, 102>>

\* f'{depot_id}_{manifest_gid}.manifest'
ManifestName(depot_id, manifest_gid) == depot_id \o <<95>> \o manifest_gid \o ManifestSuffix

---------------------------------------------------------------------------
\* Manifest normalisation (lines 101-104) and serialisation (lines 122-125)
\* A mapping is [filename |-> str, chunks |-> sequence of [sha, offset]].

\* list.sort is stable: x goes behind every element whose key is not greater
RECURSIVE InsertChunk(_, _)
InsertChunk(s, x) ==
    IF s = <<>> THEN <<x>>
    ELSE IF x.sha < Head(s).sha THEN <<x>> \o s
    ELSE <<Head(s)>> \o InsertChunk(Tail(s), x)

\* mapping.chunks.sort(key=lambda x: x.sha)
RECURSIVE SortChunks(_)
SortChunks(s) ==
    IF s = <<>> THEN <<>>
    ELSE InsertChunk(SortChunks(SubSeq(s, 1, Len(s) - 1)), s[Len(s)])

RECURSIVE InsertMapping(_, _)
InsertMapping(s, x) ==
    IF s = <<>> THEN <<x>>
    ELSE IF StrLess(Upper(x.filename), Upper(Head(s).filename)) THEN <<x>> \o s
    ELSE <<Head(s)>> \o InsertMapping(Tail(s), x)

\* manifest.payload.mappings.sort(key=lambda x: x.filename.upper())
RECURSIVE SortMappings(_)
SortMappings(s) ==
    IF s = <<>> THEN <<>>
    ELSE InsertMapping(SortMappings(SubSeq(s, 1, Len(s) - 1)), s[Len(s)])

\* the loop of lines 101-103
StripAndSortChunks(mappings) ==
    [k \in 1..Len(mappings) |->
        [filename |-> RStrip(mappings[k].filename),
         chunks   |-> SortChunks(mappings[k].chunks)]]

\* lines 101-104
NormalizeMappings(mappings) == SortMappings(StripAndSortChunks(mappings))

RECURSIVE ChunkBytes(_)
ChunkBytes(chunks) ==
    IF chunks = <<>> THEN <<>>
    ELSE <<Head(chunks).sha, Head(chunks).offset>> \o ChunkBytes(Tail(chunks))

\* manifest.payload.SerializeToString(): the mappings in their order, each
\* field length-prefixed
RECURSIVE SerializeToString(_)
SerializeToString(mappings) ==
    IF mappings = <<>> THEN <<>>
    ELSE <<Len(Head(mappings).filename)>> \o Head(mappings).filename
         \o <<Len(Head(mappings).chunks)>> \o ChunkBytes(Head(mappings).chunks)
         \o SerializeToString(Tail(mappings))

\* manifest.serialize(compress=False): payload, then the metadata
Serialize(manifest) ==
    SerializeToString(manifest.mappings) \o <<manifest.depot_id, manifest.gid>>

---------------------------------------------------------------------------
\* The key store (lines 107-113, 126-127)
\* A 'depots' mapping is a sequence of <<depot id, hex key>> in dict order.

ConfigAbsent  == [kind |-> "absent",  has_depots |-> FALSE, depots |-> <<>>]
\* a zero-length file, as open(..., 'w') leaves it
ConfigEmpty   == [kind |-> "empty",   has_depots |-> FALSE, depots |-> <<>>]
\* text vdf.load cannot parse
ConfigGarbage == [kind |-> "garbage", has_depots |-> FALSE, depots |-> <<>>]
\* a document, with or without a 'depots' mapping
ConfigDoc(has_depots, depots) ==
    [kind |-> "doc", has_depots |-> has_depots, depots |-> depots]

HasKey(store, depot_id) == \E k \in 1..Len(store) : store[k][1] = depot_id
Lookup(store, depot_id) ==
    store[CHOOSE k \in 1..Len(store) : store[k][1] = depot_id][2]

\* the mapping replaced instead of updated
MergeKey_Replacing(store, depot_id, hexkey) == <<<<depot_id, hexkey>>>>

\* d['depots'][depot_id] = {'DecryptionKey': depot_key.hex()}
MergeKey(store, depot_id, hexkey) ==
    IF HasKey(store, depot_id)
    THEN [k \in 1..Len(store) |->
            IF store[k][1] = depot_id THEN <<depot_id, hexkey>> ELSE store[k]]
    ELSE Append(store, <<depot_id, hexkey>>)

RECURSIVE InsertItem(_, _)
InsertItem(s, x) ==
    IF s = <<>> THEN <<x>>
    ELSE IF StrLess(x[1], Head(s)[1]) THEN <<x>> \o s
    ELSE <<Head(s)>> \o InsertItem(Tail(s), x)

\* dict(sorted(d['depots'].items()))
RECURSIVE SortStore(_)
SortStore(s) ==
    IF s = <<>> THEN <<>>
    ELSE InsertItem(SortStore(SubSeq(s, 1, Len(s) - 1)), s[Len(s)])

\* whether lines 107-112 get through: the file is absent (line 111), or
\* vdf.load parses it (line 109) and d['depots'] exists (line 112)
Loadable(cfg) == cfg.kind = "absent" \/ (cfg.kind = "doc" /\ cfg.has_depots)

\* the line that raises otherwise: SyntaxError in vdf.load, KeyError on d['depots']
RaisingLine(cfg) == IF cfg.kind = "garbage" THEN 109 ELSE 112

---------------------------------------------------------------------------
\* dmg_save_manifest (lines 86-128), one step per access to the disk

NoManifest == [depot_id |-> 0, gid |-> 0, mappings |-> <<>>]
NoCall == [manifest |-> NoManifest, depot_key |-> <<>>, remove_old |-> FALSE]
NoReturn == [kind |-> "none", line |-> 0, path |-> <<>>, delete_list |-> <<>>]
NoEntry == [files |-> <<>>, config |-> ConfigAbsent]

\* return True, manifest_path, delete_list
Returned(line, path, deleted) ==
    [kind |-> "returned", line |-> line, path |-> path, delete_list |-> deleted]
\* an exception leaves the function
Raised(line) == [kind |-> "raised", line |-> line, path |-> <<>>, delete_list |-> <<>>]

depot_id(p) == Str(call[p].manifest.depot_id)
manifest_gid(p) == Str(call[p].manifest.gid)
manifest_path(p) == ManifestName(depot_id(p), manifest_gid(p))

\* the existence check left out
Exists_Skipped(fs, name) == FALSE

\* manifest_path.exists()
Exists(fs, name) == name \in DOMAIN fs

Without(fs, name) == [n \in DOMAIN fs \ {name} |-> fs[n]]
WithFile(fs, name, content) ==
    [n \in DOMAIN fs \cup {name} |-> IF n = name THEN content ELSE fs[n]]

\* the decrypted manifest the CDN yields for a depot and a generation: the
\* entries are padded and unordered
MappingsOf(gid) ==
    << [filename |-> <<98, 0, 0>>,
        chunks   |-> <<[sha |-> 2, offset |-> 0], [sha |-> 1, offset |-> 1]>>],
       [filename |-> <<97, 48 + gid>>, chunks |-> <<>>] >>
ManifestOf(dep, gid) == [depot_id |-> dep, gid |-> gid, mappings |-> MappingsOf(gid)]

\* what the local variables hold outside a call
ResetLocals(p) ==
    /\ d' = [d EXCEPT ![p] = <<>>]
    /\ todo' = [todo EXCEPT ![p] = {}]
    /\ delete_list' = [delete_list EXCEPT ![p] = <<>>]

\* lines 88-104: the existence check, then the in-memory normalisation
Call(p, manifest, depot_key, remove_old) ==
    /\ pc[p] = "idle"
    /\ entry' = [entry EXCEPT ![p] = [files |-> files, config |-> config]]
    /\ LET path == ManifestName(Str(manifest.depot_id), Str(manifest.gid))
       IN  IF Exists(files, path)
           THEN /\ call' = [call EXCEPT ![p] =
                       [manifest |-> manifest, depot_key |-> depot_key,
                        remove_old |-> remove_old]]
                /\ ret' = [ret EXCEPT ![p] = Returned(96, path, <<>>)]
                /\ pc' = [pc EXCEPT ![p] = "ended"]
           ELSE /\ call' = [call EXCEPT ![p] =
                       [manifest |-> [manifest EXCEPT
                                        !.mappings = NormalizeMappings(manifest.mappings)],
                        depot_key |-> depot_key, remove_old |-> remove_old]]
                /\ ret' = [ret EXCEPT ![p] = NoReturn]
                /\ pc' = [pc EXCEPT ![p] = "makedirs"]
    /\ UNCHANGED <<diskVars, d, todo, delete_list, normVars, mainVars>>

\* lines 105-106
Makedirs(p) ==
    /\ pc[p] = "makedirs"
    /\ app_dir' = TRUE
    /\ pc' = [pc EXCEPT ![p] = "load"]
    /\ UNCHANGED <<files, config, call, d, todo, delete_list, ret, entry, normVars, mainVars>>

\* lines 107-113
LoadConfig(p) ==
    /\ pc[p] = "load"
    /\ IF Loadable(config)
       THEN /\ d' = [d EXCEPT ![p] =
                   SortStore(MergeKey(config.depots, depot_id(p), Hex(call[p].depot_key)))]
            /\ pc' = [pc EXCEPT ![p] = "retention"]
            /\ UNCHANGED ret
       ELSE /\ ret' = [ret EXCEPT ![p] = Raised(RaisingLine(config))]
            /\ pc' = [pc EXCEPT ![p] = "ended"]
            /\ UNCHANGED d
    /\ UNCHANGED <<diskVars, call, todo, delete_list, entry, normVars, mainVars>>

\* app_path.iterdir(): the names in the directory
Listing == DOMAIN files \cup (IF config.kind = "absent" THEN {} ELSE {ConfigName})

\* lines 114-116
StartRetention(p) ==
    /\ pc[p] = "retention"
    /\ delete_list' = [delete_list EXCEPT ![p] = <<>>]
    /\ IF call[p].remove_old /\ Listing # {}
       THEN /\ todo' = [todo EXCEPT ![p] = Listing]
            /\ pc' = [pc EXCEPT ![p] = "prune"]
       ELSE /\ todo' = todo
            /\ pc' = [pc EXCEPT ![p] = "open"]
    /\ UNCHANGED <<diskVars, call, d, ret, entry, normVars, mainVars>>

\* lines 119: the file is an older or newer manifest of this depot
Superseded(p, file) ==
    LET parts == Split(Stem(file), 95)
    IN  /\ parts[1] = depot_id(p)
        /\ parts[2] # manifest_gid(p)

\* lines 116-121, one file of the listing
PruneOne(p) ==
    /\ pc[p] = "prune"
    /\ \E file \in todo[p] :
        /\ todo' = [todo EXCEPT ![p] = @ \ {file}]
        /\ pc' = [pc EXCEPT ![p] = IF todo[p] = {file} THEN "open" ELSE "prune"]
        /\ IF Suffix(file) = ManifestSuffix /\ Superseded(p, file)
           THEN /\ files' = Without(files, file)
                /\ delete_list' = [delete_list EXCEPT ![p] = Append(@, file)]
           ELSE UNCHANGED <<files, delete_list>>
    /\ UNCHANGED <<app_dir, config, call, d, ret, entry, normVars, mainVars>>

\* line 124: open(manifest_path, 'wb') creates or truncates the file
OpenManifest(p) ==
    /\ pc[p] = "open"
    /\ files' = WithFile(files, manifest_path(p), <<>>)
    /\ pc' = [pc EXCEPT ![p] = "write"]
    /\ UNCHANGED <<app_dir, config, call, d, todo, delete_list, ret, entry, normVars, mainVars>>

\* line 125: the write and the close; a file unlinked meanwhile stays gone
WriteManifest(p) ==
    /\ pc[p] = "write"
    /\ files' = IF Exists(files, manifest_path(p))
                THEN WithFile(files, manifest_path(p), Serialize(call[p].manifest))
                ELSE files
    /\ pc' = [pc EXCEPT ![p] = "open_config"]
    /\ UNCHANGED <<app_dir, config, call, d, todo, delete_list, ret, entry, normVars, mainVars>>

\* line 126: open(app_path / 'config.vdf', 'w') creates or truncates the file
OpenConfig(p) ==
    /\ pc[p] = "open_config"
    /\ config' = ConfigEmpty
    /\ pc' = [pc EXCEPT ![p] = "dump"]
    /\ UNCHANGED <<app_dir, files, call, d, todo, delete_list, ret, entry, normVars, mainVars>>

\* lines 127-128
DumpConfig(p) ==
    /\ pc[p] = "dump"
    /\ config' = ConfigDoc(TRUE, d[p])
    /\ ret' = [ret EXCEPT ![p] = Returned(128, manifest_path(p), delete_list[p])]
    /\ pc' = [pc EXCEPT ![p] = "ended"]
    /\ ResetLocals(p)
    /\ UNCHANGED <<app_dir, files, call, entry, normVars, mainVars>>

\* the process is killed, or an I/O call raises, wherever the call stands
Interrupt(p) ==
    /\ pc[p] \notin {"idle", "ended"}
    /\ ret' = [ret EXCEPT ![p] =
            [kind |-> "interrupted", line |-> 0, path |-> <<>>, delete_list |-> <<>>]]
    /\ pc' = [pc EXCEPT ![p] = "ended"]
    /\ ResetLocals(p)
    /\ UNCHANGED <<diskVars, call, entry, normVars, mainVars>>

\* line 268: the caller drops what the call returned and goes on
Discard(p) ==
    /\ pc[p] = "ended"
    /\ pc' = [pc EXCEPT ![p] = "idle"]
    /\ call' = [call EXCEPT ![p] = NoCall]
    /\ ret' = [ret EXCEPT ![p] = NoReturn]
    /\ entry' = [entry EXCEPT ![p] = NoEntry]
    /\ UNCHANGED <<diskVars, d, todo, delete_list, normVars, mainVars>>

---------------------------------------------------------------------------
\* Initial states

\* what dmg_save_manifest writes for a depot and a generation
CompleteContent(dep, gid) ==
    Serialize([ManifestOf(dep, gid) EXCEPT !.mappings = NormalizeMappings(@)])

\* a directory holding the complete manifests of the pairs in S
FilesOf(S) ==
    [n \in {ManifestName(Str(x[1]), Str(x[2])) : x \in S} |->
        LET x == CHOOSE y \in S : ManifestName(Str(y[1]), Str(y[2])) = n
        IN  CompleteContent(x[1], x[2])]

StoreItems == {<<Str(dep), Hex(k)>> : dep \in Depots, k \in Keys}

\* the key stores line 113 can have written: sorted, one entry per depot
SortedStores ==
    {s \in UNION {[1..n -> StoreItems] : n \in 0..Cardinality(Depots)} :
        \A k \in 1..(Len(s) - 1) : StrLess(s[k][1], s[k + 1][1])}

PriorConfigs ==
    {ConfigAbsent, ConfigEmpty, ConfigGarbage, ConfigDoc(FALSE, <<>>)}
    \cup {ConfigDoc(TRUE, s) : s \in SortedStores}

ProcInit ==
    /\ pc = [p \in Procs |-> "idle"]
    /\ call = [p \in Procs |-> NoCall]
    /\ d = [p \in Procs |-> <<>>]
    /\ todo = [p \in Procs |-> {}]
    /\ delete_list = [p \in Procs |-> <<>>]
    /\ ret = [p \in Procs |-> NoReturn]
    /\ entry = [p \in Procs |-> NoEntry]

\* an empty product directory (or none yet)
DiskEmpty ==
    /\ app_dir \in BOOLEAN
    /\ files = FilesOf({})
    /\ config = ConfigAbsent

\* a product directory left by earlier runs, or edited by hand
DiskAny ==
    \/ DiskEmpty
    \/ /\ app_dir = TRUE
       /\ files \in {FilesOf(S) : S \in SUBSET (Depots \X Gids)}
       /\ config \in PriorConfigs

NormIdle ==
    /\ raw_a = <<>>
    /\ raw_b = <<>>
    /\ out_a = [done |-> FALSE, bytes |-> <<>>]
    /\ out_b = [done |-> FALSE, bytes |-> <<>>]

MainIdle ==
    /\ main_pc = "off"
    /\ licenses = FALSE
    /\ app_id_list = <<>>
    /\ owned = {}
    /\ idx = 0
    /\ pending = 0
    /\ visited = {}

---------------------------------------------------------------------------
\* One process saving manifests into a directory with prior contents

Save(p) ==
    \E dep \in Depots, gid \in Gids, key \in Keys, remove_old \in BOOLEAN :
        Call(p, ManifestOf(dep, gid), key, remove_old)

Init == DiskAny /\ ProcInit /\ NormIdle /\ MainIdle

Next ==
    \/ Save(1)
    \/ Makedirs(1)
    \/ LoadConfig(1)
    \/ StartRetention(1)
    \/ PruneOne(1)
    \/ OpenManifest(1)
    \/ WriteManifest(1)
    \/ OpenConfig(1)
    \/ DumpConfig(1)
    \/ Interrupt(1)
    \/ Discard(1)

Spec == Init /\ [][Next]_vars

\* the same, from an empty product directory
InitEmpty == DiskEmpty /\ ProcInit /\ NormIdle /\ MainIdle

SpecEmpty == InitEmpty /\ [][Next]_vars

---------------------------------------------------------------------------
\* Two instances of the tool saving manifests of the same product, each
\* those of its own depot, and neither interrupted

DepotFor(p) == IF p = 1 THEN 9 ELSE 10

\* cdn.get_depot_key: a depot has one key
KeyFor(p) == IF p = 1 THEN <<222>> ELSE <<173>>

SaveOwn(p) ==
    \E gid \in Gids, remove_old \in BOOLEAN :
        Call(p, ManifestOf(DepotFor(p), gid), KeyFor(p), remove_old)

NextConc ==
    \E p \in Procs :
        \/ SaveOwn(p)
        \/ Makedirs(p)
        \/ LoadConfig(p)
        \/ StartRetention(p)
        \/ PruneOne(p)
        \/ OpenManifest(p)
        \/ WriteManifest(p)
        \/ OpenConfig(p)
        \/ DumpConfig(p)
        \/ Discard(p)

SpecConc == InitEmpty /\ [][NextConc]_vars

---------------------------------------------------------------------------
\* Normalising two orderings of one decrypted manifest

\* file names 'a', 'A', 'a\x00' and 'b'
RawNames == {<<97>>, <<65>>, <<97, 0>>, <<98>>}
\* two chunks of one content at two offsets, and a third chunk
RawChunks == {[sha |-> 1, offset |-> 0], [sha |-> 1, offset |-> 1], [sha |-> 2, offset |-> 0]}

\* the orderings of a sequence
Perms(s) ==
    {[k \in 1..Len(s) |-> s[f[k]]] :
        f \in {g \in [1..Len(s) -> 1..Len(s)] : \A i, j \in 1..Len(s) : g[i] = g[j] => i = j}}

RawChunkLists ==
    {<<>>} \cup {<<c>> : c \in RawChunks}
    \cup {x \in RawChunks \X RawChunks : x[1] # x[2]}

RawMappings == [filename : RawNames, chunks : RawChunkLists]

RawManifests == UNION {[1..n -> RawMappings] : n \in 1..MaxEntries}

Reverse(s) == [k \in 1..Len(s) |-> s[Len(s) + 1 - k]]

\* the same entries, and the same chunks in each, in another order (a list
\* of at most two chunks has two orders)
Reordered(m) ==
    {[k \in 1..Len(m) |->
        [filename |-> e[k].filename,
         chunks   |-> IF sw[k] THEN Reverse(e[k].chunks) ELSE e[k].chunks]] :
        e \in Perms(m), sw \in [1..Len(m) -> BOOLEAN]}

NotDone == [done |-> FALSE, bytes |-> <<>>]

\* lines 101-104 and 122 on one manifest
NormalizeA ==
    /\ ~out_a.done
    /\ out_a' = [done |-> TRUE, bytes |-> SerializeToString(NormalizeMappings(raw_a))]
    /\ UNCHANGED <<raw_a, raw_b, out_b, saveVars, mainVars>>

\* and on the other
NormalizeB ==
    /\ ~out_b.done
    /\ out_b' = [done |-> TRUE, bytes |-> SerializeToString(NormalizeMappings(raw_b))]
    /\ UNCHANGED <<raw_a, raw_b, out_a, saveVars, mainVars>>

InitNorm ==
    /\ raw_a \in RawManifests
    /\ raw_b \in Reordered(raw_a)
    /\ out_a = NotDone
    /\ out_b = NotDone
    /\ app_dir = FALSE
    /\ files = FilesOf({})
    /\ config = ConfigAbsent
    /\ ProcInit
    /\ MainIdle

NextNorm == NormalizeA \/ NormalizeB

SpecNorm == InitNorm /\ [][NextNorm]_vars

---------------------------------------------------------------------------
\* The main loop (lines 212-214, 251-253, 262-271). The calls to the CDN
\* client and to dmg_save_manifest either return or raise; nothing in
\* main.py catches what they raise.

AppIds == {480, 730}

AppLists == UNION {[1..n -> AppIds] : n \in 0..MaxApps}

\* an uncaught exception ends the interpreter
Crash ==
    /\ main_pc' = "crashed"
    /\ UNCHANGED <<idx, pending, visited>>

\* lines 212-214
CheckLicenses ==
    /\ main_pc = "licenses"
    /\ main_pc' = IF licenses THEN "apps" ELSE "exit1"
    /\ UNCHANGED <<licenses, app_id_list, owned, idx, pending, visited, saveVars, normVars>>

\* lines 251-253
CheckAppList ==
    /\ main_pc = "apps"
    /\ main_pc' = IF Len(app_id_list) = 0 THEN "exit1" ELSE "loop"
    /\ UNCHANGED <<licenses, app_id_list, owned, idx, pending, visited, saveVars, normVars>>

\* lines 262-265: the next app_id, skipped when the account does not own it
NextApp ==
    /\ main_pc = "loop"
    /\ IF idx = Len(app_id_list)
       THEN /\ main_pc' = "logout"
            /\ UNCHANGED <<idx, visited>>
       ELSE /\ idx' = idx + 1
            /\ visited' = visited \cup {idx + 1}
            /\ main_pc' = IF app_id_list[idx + 1] \in owned THEN "manifests" ELSE "loop"
    /\ UNCHANGED <<licenses, app_id_list, owned, pending, saveVars, normVars>>

\* line 266: cdn.get_manifests yields the manifests of the app, or raises
GetManifests ==
    /\ main_pc = "manifests"
    /\ \/ \E n \in 0..Cardinality(Depots) :
            /\ pending' = n
            /\ main_pc' = IF n = 0 THEN "loop" ELSE "key"
            /\ UNCHANGED <<idx, visited>>
       \/ Crash
    /\ UNCHANGED <<licenses, app_id_list, owned, saveVars, normVars>>

\* line 267: cdn.get_depot_key returns the key, or raises
GetDepotKey ==
    /\ main_pc = "key"
    /\ \/ /\ main_pc' = "save"
          /\ UNCHANGED <<idx, pending, visited>>
       \/ Crash
    /\ UNCHANGED <<licenses, app_id_list, owned, saveVars, normVars>>

\* line 268: dmg_save_manifest returns, or raises (as LoadConfig does)
SaveManifest ==
    /\ main_pc = "save"
    /\ \/ /\ pending' = pending - 1
          /\ main_pc' = IF pending = 1 THEN "loop" ELSE "key"
          /\ UNCHANGED <<idx, visited>>
       \/ Crash
    /\ UNCHANGED <<licenses, app_id_list, owned, saveVars, normVars>>

\* lines 270-271
Logout ==
    /\ main_pc = "logout"
    /\ main_pc' = "done"
    /\ UNCHANGED <<licenses, app_id_list, owned, idx, pending, visited, saveVars, normVars>>

InitMain ==
    /\ main_pc = "licenses"
    /\ licenses \in BOOLEAN
    /\ app_id_list \in AppLists
    /\ owned \in SUBSET AppIds
    /\ idx = 0
    /\ pending = 0
    /\ visited = {}
    /\ app_dir = FALSE
    /\ files = FilesOf({})
    /\ config = ConfigAbsent
    /\ ProcInit
    /\ NormIdle

NextMain ==
    \/ CheckLicenses
    \/ CheckAppList
    \/ NextApp
    \/ GetManifests
    \/ GetDepotKey
    \/ SaveManifest
    \/ Logout

SpecMain == InitMain /\ [][NextMain]_vars

---------------------------------------------------------------------------
\* Properties of dmg_save_manifest

\* the depot of a manifest file name
DepotOfName(n) == Split(Stem(n), 95)[1]
GidOfName(n) == Split(Stem(n), 95)[2]

\* the manifests of the call's depot, of other generations, in a directory
OtherGenerations(p, fs) ==
    {n \in DOMAIN fs : DepotOfName(n) = depot_id(p) /\ GidOfName(n) # manifest_gid(p)}

\* the call of process p has returned (True, manifest_path, delete_list)
HasReturned(p) == pc[p] = "ended" /\ ret[p].kind = "returned"

\* the sequence as a set
Range(s) == {s[k] : k \in 1..Len(s)}

\* C1: while a call has deleted a manifest of its depot, the manifest file of
\* the kept generation exists
C1_DeleteOnlyAfterWrite ==
    delete_list[1] # <<>> => manifest_path(1) \in DOMAIN files

\* C2: a call for a manifest file that exists returns at once
\* (True, manifest_path, []) and leaves the directory as it is, whatever
\* remove_old and the depot key are
C2_ExistingIsNoOp ==
    [][LET path == ManifestName(Str(call'[1].manifest.depot_id),
                                Str(call'[1].manifest.gid))
       IN  (pc[1] = "idle" /\ path \in DOMAIN files)
           => /\ pc'[1] = "ended"
              /\ ret'[1].kind = "returned"
              /\ ret'[1].path = path
              /\ ret'[1].delete_list = <<>>
              /\ files' = files
              /\ config' = config
              /\ app_dir' = app_dir]_vars

\* a call with remove_old that returned at line 96: an older manifest of the
\* depot is in the directory and config.vdf does not parse
C2_Witness ==
    /\ HasReturned(1)
    /\ ret[1].line = 96
    /\ call[1].remove_old
    /\ OtherGenerations(1, files) # {}
    /\ config.kind = "garbage"

\* C4: every manifest file in the directory holds the complete serialised
\* normalised manifest of its depot and generation
C4_NoPartialManifest ==
    \A n \in DOMAIN files :
        \E x \in Depots \X Gids :
            /\ n = ManifestName(Str(x[1]), Str(x[2]))
            /\ files[n] = CompleteContent(x[1], x[2])

\* C5: after a call that wrote a manifest, the key store is the store the
\* call found with the entry of its depot set to its key: the entries of the
\* other depots are the same, and the same key again changes nothing
C5_MergePreservesOthers ==
    (HasReturned(1) /\ ret[1].line = 128) =>
        LET old == entry[1].config.depots
            new == config.depots
            dep == depot_id(1)
            key == Hex(call[1].depot_key)
        IN  /\ config.kind = "doc"
            /\ config.has_depots
            /\ \E k \in 1..Len(new) : new[k] = <<dep, key>>
            /\ \A k \in 1..Len(new) : new[k][1] = dep => new[k][2] = key
            /\ \A k \in 1..Len(old) :
                  old[k][1] # dep => \E j \in 1..Len(new) : new[j] = old[k]
            /\ \A j \in 1..Len(new) :
                  new[j][1] # dep => \E k \in 1..Len(old) : old[k] = new[j]
            /\ (\E k \in 1..Len(old) : old[k] = <<dep, key>>) => config = entry[1].config

\* a call that wrote, into a store holding another depot and an older key of
\* its own depot
C5_Witness ==
    /\ HasReturned(1)
    /\ ret[1].line = 128
    /\ Len(entry[1].config.depots) = 2
    /\ \E k \in 1..2 :
          /\ entry[1].config.depots[k][1] = depot_id(1)
          /\ entry[1].config.depots[k][2] # Hex(call[1].depot_key)

\* C7: a call with remove_old that returned has removed the manifests of
\* its depot of other generations and no other file, and returns their
\* names; a call without remove_old has removed nothing
C7_RetentionRemovesOld ==
    HasReturned(1) =>
        LET before == entry[1].files
            old == OtherGenerations(1, before)
        IN  IF call[1].remove_old
            THEN /\ DOMAIN files = (DOMAIN before \ old) \cup {manifest_path(1)}
                 /\ Range(ret[1].delete_list) = old
                 /\ \A n \in DOMAIN before \ old : files[n] = before[n]
            ELSE /\ DOMAIN before \subseteq DOMAIN files
                 /\ ret[1].delete_list = <<>>

\* C9: a call that found config.vdf absent, empty, unparsable or without
\* 'depots', and no manifest file, does not fail: it writes the manifest and
\* a key store holding its depot's key alone
C9_BadConfigStartsEmpty ==
    ( /\ pc[1] = "ended"
      /\ ret[1].kind \in {"returned", "raised"}
      /\ ret[1].line # 96
      /\ ~(entry[1].config.kind = "doc" /\ entry[1].config.has_depots) )
    => /\ ret[1].kind = "returned"
       /\ config = ConfigDoc(TRUE, <<<<depot_id(1), Hex(call[1].depot_key)>>>>)
       /\ manifest_path(1) \in DOMAIN files

\* C10: from an empty directory, whenever no call is in progress, every
\* depot with a (written) manifest file has a DecryptionKey in config.vdf
C10_ManifestHasKey ==
    pc[1] \in {"idle", "ended"} =>
        \A n \in {m \in DOMAIN files : files[m] # <<>>} :
            /\ config.kind = "doc"
            /\ config.has_depots
            /\ HasKey(config.depots, DepotOfName(n))

\* C3: when both instances have returned from a call that wrote, the key
\* store holds the keys of both depots
C3_BothKeysKept ==
    (\A p \in Procs : HasReturned(p) /\ ret[p].line = 128) =>
        /\ config.kind = "doc"
        /\ \A p \in Procs : <<depot_id(p), Hex(KeyFor(p))>> \in Range(config.depots)

\* C8: two orderings of the same entries serialise to the same bytes
C8_OrderIndependent ==
    (out_a.done /\ out_b.done) => out_a.bytes = out_b.bytes

\* C6: a run that got past the account checks ends with every product of
\* app_id_list processed, whatever failed for one of them
C6_FailureIsolated ==
    (main_pc \in {"done", "crashed"}) => visited = 1..Len(app_id_list)

====
